---- MODULE Spec2Model ----
(***************************************************************************)
(* A model of src/index.js: the Lark webhook bridge (POST /webhook) with   *)
(* its Msg and Event collections, and the Teams bridge (POST               *)
(* /teams-webhook).                                                        *)
(*                                                                         *)
(* Modelling conventions                                                   *)
(*  - A JavaScript string is a record [kind, s, pad]: the characters s     *)
(*    followed by pad filler characters "x" (a filler is neither white     *)
(*    space nor "/" nor part of the mention token); undefined is the       *)
(*    record Undefined.  A character outside ASCII is written as the name  *)
(*    of its code point ("U+00E9"), one element of s.  Lengths, trim,      *)
(*    replace and startsWith are exact on this family of strings.          *)
(*  - A collection is the set of its documents.  Every awaited database or *)
(*    network call takes effect in one step; the synchronous code that     *)
(*    follows it up to the next awaited call belongs to the same step.     *)
(*  - Date.now, read when a Msg document is constructed, gives the         *)
(*    millisecond of the previous construction or a later one; a sort on   *)
(*    createdAt gives rows of one millisecond in any order.                *)
(*  - The two inserts into Event answer with success, with the duplicate   *)
(*    key of the unique index, or with another error, which the handler    *)
(*    throws on.  The calls on Msg do not fail.                            *)
(***************************************************************************)
EXTENDS Integers, Sequences, FiniteSets, TLC

VARIABLES
    store,      \* the Msg collection: a set of documents
    clock,      \* the last value Date.now gave to a Msg document
    nextId,     \* the number of Msg documents constructed so far
    op,         \* SpecStore: the Message Store call that returned in the last
                \* step and what it gave
    hist,       \* SpecStore: per session, the turns appended since its last clear
    ledger,     \* the Event collection: its documents in insertion order
    pc,         \* per delivery: the awaited call its handler is suspended on
    req,        \* per delivery: req.body and req.query of the request
    frame,      \* per delivery: the locals of handleReply, saveConversation
                \* and discardConversation
    resp,       \* per delivery: the responses written to res
    replies,    \* per delivery: the calls of client.im.message.reply
    queried,    \* per delivery: the requests sent to FLOWISE_API_URL
    clearing,   \* the deliveries whose clearConversation has not run yet
    passed,     \* the deliveries whose insert of their event id succeeded
    log,        \* per delivery: its effects on the ledger, the Message Store,
                \* the downstream endpoint and the chat, in their order
    teams,      \* per request of POST /teams-webhook: its position, its
                \* body, the downstream answer, its responses, its queries
    savers      \* SpecStore, SpecAppend: per call of saveConversation, its
                \* position and its locals

dbVars == <<store, clock, nextId>>

driverVars == <<op, hist, savers>>

hookVars ==
    <<ledger, pc, req, frame, resp, replies, queried, clearing, passed, log>>

vars == <<dbVars, driverVars, hookVars, teams>>

(***************************************************************************)
(* Strings                                                                 *)
(***************************************************************************)
Str(s, pad) == [kind |-> "string", s |-> s, pad |-> pad]

Undefined == [kind |-> "undefined", s |-> <<>>, pad |-> 0]

\* String.prototype.length
Length(t) == Len(t.s) + t.pad

\* JavaScript truthiness of a string or undefined: !x is ~Truthy(x)
Truthy(t) == t.kind = "string" /\ Length(t) > 0

\* the code units String.prototype.trim strips, WhiteSpace and LineTerminator
\* of ECMAScript, 25 in all.  Those of ASCII: tab, line feed, form feed,
\* carriage return, space, and U+000B written as itself
WhitespaceEscaped == {"\t", "\n", "\f", "\r", " ", ""}

\* those outside ASCII.  A code unit outside ASCII is written as the name of
\* its code point, one element of the character sequence: "U+00A0" is the one
\* character U+00A0
WhitespaceNamed ==
    {"U+00A0", "U+1680", "U+2000", "U+2001", "U+2002", "U+2003", "U+2004",
     "U+2005", "U+2006", "U+2007", "U+2008", "U+2009", "U+200A", "U+2028",
     "U+2029", "U+202F", "U+205F", "U+3000", "U+FEFF"}

Whitespace == WhitespaceEscaped \cup WhitespaceNamed

RECURSIVE TrimStart(_)
TrimStart(s) ==
    IF s # <<>> /\ Head(s) \in Whitespace THEN TrimStart(Tail(s)) ELSE s

RECURSIVE TrimEnd(_)
TrimEnd(s) ==
    IF s # <<>> /\ s[Len(s)] \in Whitespace
    THEN TrimEnd(SubSeq(s, 1, Len(s) - 1))
    ELSE s

\* String.prototype.trim
Trim(t) ==
    Str(IF t.pad = 0 THEN TrimEnd(TrimStart(t.s)) ELSE TrimStart(t.s), t.pad)

\* The index of the first occurrence of pat in s, 0 when there is none
IndexOf(s, pat) ==
    LET idx == {i \in 1..(Len(s) - Len(pat) + 1) :
                    SubSeq(s, i, i + Len(pat) - 1) = pat}
    IN  IF idx = {} THEN 0 ELSE CHOOSE i \in idx : \A j \in idx : i <= j

\* String.prototype.replace(pat, ""): the first occurrence only
RemoveFirst(t, pat) ==
    LET i == IndexOf(t.s, pat)
    IN  IF i = 0
        THEN t
        ELSE Str(SubSeq(t.s, 1, i - 1) \o SubSeq(t.s, i + Len(pat), Len(t.s)),
                 t.pad)

\* String.prototype.startsWith("/")
StartsWithSlash(t) == t.s # <<>> /\ Head(t.s) = "/"

(***************************************************************************)
(* The Message Store: Msg documents, saveConversation, discardConversation,*)
(* clearConversation, buildConversation                                    *)
(***************************************************************************)
Budget == 1024

\* new Msg({ sessionId, question, answer, msgSize }) with its defaults
NewMsg(id, t, sessionId, question, answer, msgSize) ==
    [id |-> id, sessionId |-> sessionId, question |-> question,
     answer |-> answer, msgSize |-> msgSize, createdAt |-> t]

FindAnySession(st, sessionId) == st

\* Msg.find({ sessionId })
Find(st, sessionId) == {m \in st : m.sessionId = sessionId}

\* the lists that hold every row of S once
Arrangements(S) ==
    {f \in [1..Cardinality(S) -> S] :
        \A i, j \in 1..Cardinality(S) : i # j => f[i] # f[j]}

\* .sort({ createdAt: -1 }): the lists the query may give; rows with the same
\* createdAt come in an order the database does not specify
SortDesc(S) ==
    {f \in Arrangements(S) :
        \A i, j \in DOMAIN f : i < j => f[i].createdAt >= f[j].createdAt}

\* .sort({ createdAt: 1 })
SortAsc(S) ==
    {f \in Arrangements(S) :
        \A i, j \in DOMAIN f : i < j => f[i].createdAt <= f[j].createdAt}

\* the forEach of discardConversation: the running total per row
RECURSIVE CountList(_, _)
CountList(messages, totalSize) ==
    IF messages = <<>>
    THEN <<>>
    ELSE LET t == totalSize + Head(messages).msgSize
         IN  <<[msgId |-> Head(messages).id, totalSize |-> t]>>
             \o CountList(Tail(messages), t)

\* if (c.totalSize > 1024)
OverBudget(c) == c.totalSize > Budget

\* the rows discardConversation deletes of the list Msg.find gave it, in the
\* order it deletes them
ToDelete(messages) ==
    LET countList == CountList(messages, 0)
        del == SelectSeq(countList, OverBudget)
    IN  [i \in DOMAIN del |-> del[i].msgId]

\* Msg.deleteOne({ _id })
DeleteOne(st, msgId) == {m \in st : m.id # msgId}

\* Msg.deleteMany({ sessionId })
ClearConversation(st, sessionId) == {m \in st : m.sessionId # sessionId}

\* SaveValid that tests the answer alone
SaveValidAnswerOnly(question, answer) == Truthy(answer)

\* if (!question || !answer) throw
SaveValid(question, answer) == Truthy(question) /\ Truthy(answer)

\* const msgSize = question.length + answer.length
MsgSize(question, answer) == Length(question) + Length(answer)

\* the prompt rows of one stored turn
TurnEntries(row) ==
    <<[role |-> "user", content |-> row.question],
      [role |-> "assistant", content |-> row.answer]>>

RECURSIVE PromptOf(_)
PromptOf(messages) ==
    IF messages = <<>>
    THEN <<>>
    ELSE TurnEntries(Head(messages)) \o PromptOf(Tail(messages))

\* buildConversation(sessionId, question) once Msg.find has given messages
BuildConversation(messages, question) ==
    PromptOf(messages) \o <<[role |-> "user", content |-> question]>>

\* Date.now, read when a Msg document is constructed: the millisecond of the
\* document constructed before it, or a later one
Now == IF nextId = 0 THEN {clock + 1} ELSE {clock, clock + 1}

(***************************************************************************)
(* SpecStore: the Message Store with one call of saveConversation at a     *)
(* time, and calls of buildConversation and clearConversation at any time  *)
(***************************************************************************)
MaxAppends == 3

\* the deliveries of POST /webhook, numbered in their order of arrival
Deliveries == {1, 2}

\* the requests of POST /teams-webhook, numbered in their order of arrival
TeamsRequests == {1, 2}

NoTeams ==
    [pc |-> "idle", text |-> Undefined, sessionId |-> Undefined,
     result |-> [fetch |-> "none", ok |-> FALSE, parses |-> FALSE,
                 text |-> Undefined],
     resp |-> <<>>, queried |-> 0]

\* the calls of saveConversation that run side by side, numbered in the
\* order in which they construct their document
Savers == {1, 2, 3}

StoreSessions == {"abc", "ac"}

StoreQuestions == {Str(<<"h", "i">>, 0), Str(<<>>, 0)}

\* the questions of the calls of buildConversation
BuildQuestions == {Str(<<"y", "o", "u", "?">>, 0)}

StoreAnswers ==
    {Undefined, Str(<<>>, 498), Str(<<>>, 598), Str(<<>>, 1098)}

\* the record of one Message Store call: its arguments and what it gave
OpRecord(name, sessionId, question, threw, msgId, msgSize, prompt) ==
    [name |-> name, sessionId |-> sessionId, question |-> question,
     threw |-> threw, msgId |-> msgId, msgSize |-> msgSize, prompt |-> prompt]

\* no call has returned in the last step
Pending == OpRecord("await", "", Undefined, FALSE, 0, 0, <<>>)

NoMsg == NewMsg(0, 0, "", Undefined, Undefined, 0)

\* the locals of one call of saveConversation: the document, the ids Msg.find
\* gave to the trim, the ids still to delete; and whether no other call has
\* run since it started
NoSaver ==
    [pc |-> "idle", msg |-> NoMsg, messages |-> <<>>, toDelete |-> <<>>,
     alone |-> TRUE]

NoPayload == [kind |-> "none"]

\* the locals of a handler: question, prompt and openaiResponse of handleReply,
\* the document of saveConversation, the rows discardConversation is deleting
NoFrame ==
    [question |-> Undefined, prompt |-> <<>>, openaiResponse |-> Undefined,
     msg |-> NoMsg, toDelete |-> <<>>]

\* both collections empty, no request received
Init ==
    /\ store = {}
    /\ clock = 0
    /\ nextId = 0
    /\ op = OpRecord("none", "", Undefined, FALSE, 0, 0, <<>>)
    /\ hist = [s \in StoreSessions |-> <<>>]
    /\ ledger = <<>>
    /\ pc = [d \in Deliveries |-> "idle"]
    /\ req = [d \in Deliveries |-> NoPayload]
    /\ frame = [d \in Deliveries |-> NoFrame]
    /\ resp = [d \in Deliveries |-> <<>>]
    /\ replies = [d \in Deliveries |-> <<>>]
    /\ queried = [d \in Deliveries |-> 0]
    /\ log = [d \in Deliveries |-> <<>>]
    /\ clearing = {}
    /\ passed = {}
    /\ teams = [t \in TeamsRequests |-> NoTeams]
    /\ savers = [p \in Savers |-> NoSaver]

\* saveConversation throws before it constructs a document
SaveThrows(sessionId, question, answer) ==
    /\ ~SaveValid(question, answer)
    /\ op' = OpRecord("save", sessionId, question, TRUE, 0, 0, <<>>)
    /\ UNCHANGED <<store, clock, nextId, hist, savers, hookVars, teams>>

\* saveConversation constructs the document and starts the insert
SaveStores(sessionId, question, answer) ==
    /\ SaveValid(question, answer)
    /\ nextId < MaxAppends
    /\ \E t \in Now :
        /\ savers' = [savers EXCEPT ![1] =
              [NoSaver EXCEPT
                 !.pc = "insert",
                 !.msg = NewMsg(nextId + 1, t, sessionId, question, answer,
                                MsgSize(question, answer))]]
        /\ clock' = t
    /\ nextId' = nextId + 1
    /\ op' = Pending
    /\ UNCHANGED <<store, hist, hookVars, teams>>

\* a call of saveConversation, when the one before it has returned
StoreSave ==
    /\ savers[1].pc = "idle"
    /\ \E sessionId \in StoreSessions, question \in StoreQuestions,
          answer \in StoreAnswers :
        \/ SaveThrows(sessionId, question, answer)
        \/ SaveStores(sessionId, question, answer)

\* what saveConversation leaves when it returns
SaveReturned(msg) ==
    OpRecord("save", msg.sessionId, msg.question, FALSE, msg.id, msg.msgSize,
             <<>>)

\* new Msg(...).save() answers; discardConversation starts its find
StoreInsert ==
    /\ savers[1].pc = "insert"
    /\ store' = store \cup {savers[1].msg}
    /\ hist' = [hist EXCEPT ![savers[1].msg.sessionId] =
                   Append(@, [id |-> savers[1].msg.id,
                              size |-> savers[1].msg.msgSize,
                              t |-> savers[1].msg.createdAt])]
    /\ savers' = [savers EXCEPT ![1].pc = "find"]
    /\ op' = Pending
    /\ UNCHANGED <<clock, nextId, hookVars, teams>>

\* discardConversation: Msg.find answers and the rows to delete are listed;
\* with none to delete saveConversation returns
StoreFind ==
    /\ savers[1].pc = "find"
    /\ \E messages \in SortDesc(Find(store, savers[1].msg.sessionId)) :
        LET del == ToDelete(messages)
        IN  IF del = <<>>
            THEN /\ savers' = [savers EXCEPT ![1] =
                       [NoSaver EXCEPT !.alone = savers[1].alone]]
                 /\ op' = SaveReturned(savers[1].msg)
            ELSE /\ savers' = [savers EXCEPT ![1].pc = "delete",
                                             ![1].toDelete = del]
                 /\ op' = Pending
    /\ UNCHANGED <<dbVars, hist, hookVars, teams>>

\* discardConversation: one Msg.deleteOne answers; after the last one
\* saveConversation returns
StoreDelete ==
    /\ savers[1].pc = "delete"
    /\ store' = DeleteOne(store, Head(savers[1].toDelete))
    /\ IF Tail(savers[1].toDelete) = <<>>
       THEN /\ savers' = [savers EXCEPT ![1] =
                  [NoSaver EXCEPT !.alone = savers[1].alone]]
            /\ op' = SaveReturned(savers[1].msg)
       ELSE /\ savers' = [savers EXCEPT ![1].toDelete = Tail(@)]
            /\ op' = Pending
    /\ UNCHANGED <<clock, nextId, hist, hookVars, teams>>

\* the call of saveConversation that is underway has company
Interleaved ==
    [savers EXCEPT ![1].alone = IF savers[1].pc = "idle" THEN @ ELSE FALSE]

\* clearConversation(sessionId) by another caller
StoreClear ==
    \E sessionId \in StoreSessions :
        /\ store' = ClearConversation(store, sessionId)
        /\ op' = OpRecord("clear", sessionId, Undefined, FALSE, 0, 0, <<>>)
        /\ hist' = [hist EXCEPT ![sessionId] = <<>>]
        /\ savers' = Interleaved
        /\ UNCHANGED <<clock, nextId, hookVars, teams>>

\* buildConversation(sessionId, question) by another caller
StoreBuild ==
    \E sessionId \in StoreSessions, question \in BuildQuestions :
        /\ \E messages \in SortAsc(Find(store, sessionId)) :
            op' = OpRecord("build", sessionId, question, FALSE, 0, 0,
                           BuildConversation(messages, question))
        /\ savers' = Interleaved
        /\ UNCHANGED <<store, clock, nextId, hist, hookVars, teams>>

NextStore ==
    \/ StoreSave
    \/ StoreInsert
    \/ StoreFind
    \/ StoreDelete
    \/ StoreClear
    \/ StoreBuild

SpecStore == Init /\ [][NextStore]_vars

(***************************************************************************)
(* Properties of the Message Store under SpecStore                         *)
(***************************************************************************)
RECURSIVE SumSizes(_)
SumSizes(S) ==
    IF S = {}
    THEN 0
    ELSE LET m == CHOOSE x \in S : TRUE IN m.msgSize + SumSizes(S \ {m})

TurnsOf(sessionId) == {m \in store : m.sessionId = sessionId}

IdsOf(sessionId) == {m.id : m \in TurnsOf(sessionId)}

\* the last step was the return of a saveConversation that stored its turn
SaveDone == op.name = "save" /\ ~op.threw

\* that call ran from its start to its return with no other call in between
Sequential == SaveDone /\ savers[1].alone

\* the size of h[i] and of every turn appended after it
RECURSIVE SuffixSize(_, _)
SuffixSize(h, i) == IF i > Len(h) THEN 0 ELSE h[i].size + SuffixSize(h, i + 1)

\* C1: right after a saveConversation has completed with nothing else in
\* flight, the sizes of the turns stored for its session add up to at most
\* 1024; and when the turn just appended is itself larger than 1024, no turn
\* other than that one remains.
C1_TrimInvariant ==
    Sequential =>
        /\ op.msgSize <= Budget => SumSizes(TurnsOf(op.sessionId)) <= Budget
        /\ op.msgSize > Budget => IdsOf(op.sessionId) \subseteq {op.msgId}

\* C4: after a sequential append the turns stored for the session are exactly
\* the appended turns whose size, added to the sizes of all turns appended
\* after them, is at most 1024; so survivors are a block of the newest turns,
\* and appending 600 then 500 leaves the 500 alone.
C4_TrimReference ==
    Sequential =>
        LET sid == op.sessionId
            h == hist[sid]
        IN  /\ IdsOf(sid) = {h[i].id : i \in {j \in DOMAIN h :
                                                SuffixSize(h, j) <= Budget}}
            /\ \A i, j \in DOMAIN h :
                    i < j /\ h[i].id \in IdsOf(sid) => h[j].id \in IdsOf(sid)
            /\ [i \in DOMAIN h |-> h[i].size] = <<600, 500>>
                    => {m.msgSize : m \in TurnsOf(sid)} = {500}

\* C5: after a successful saveConversation with nothing else in flight, the
\* turn just appended is still stored; stated here for the turns that fit the
\* budget by themselves.
C5_NewestKept ==
    Sequential /\ op.msgSize <= Budget => op.msgId \in IdsOf(op.sessionId)

\* C7: buildConversation returns, for the stored turns t1..tn of the session
\* in an order of non-decreasing creation time, user(t1.question),
\* assistant(t1.answer), ..., user(tn.question), assistant(tn.answer),
\* user(question): 2n+1 entries, roles alternating, from that session only.
C7_PromptAssembly ==
    op.name = "build" =>
        LET turns == {m \in store : m.sessionId = op.sessionId}
            n == Cardinality(turns)
            p == op.prompt
        IN  /\ Len(p) = 2 * n + 1
            /\ p[2 * n + 1] = [role |-> "user", content |-> op.question]
            /\ \A i \in 1..Len(p) :
                    p[i].role = IF i % 2 = 1 THEN "user" ELSE "assistant"
            /\ \E t \in [1..n -> turns] :
                    /\ \A i, j \in 1..n : i # j => t[i] # t[j]
                    /\ \A i, j \in 1..n :
                            i < j => t[i].createdAt <= t[j].createdAt
                    /\ \A i \in 1..n :
                            /\ p[2 * i - 1].content = t[i].question
                            /\ p[2 * i].content = t[i].answer

\* a prompt built from two turns of different times while the other session
\* holds a turn too
C7_Witness ==
    /\ op.name = "build"
    /\ Len(op.prompt) = 5
    /\ op.prompt[2].content # op.prompt[4].content
    /\ \E m, o \in TurnsOf(op.sessionId) : m.createdAt < o.createdAt
    /\ \E m \in store : m.sessionId # op.sessionId

(***************************************************************************)
(* POST /webhook: the payloads                                             *)
(***************************************************************************)
Mention == <<"@", "_", "u", "s", "e", "r", "_", "1">>

TextHi == Str(<<"h", "i">>, 0)

TextMentionHi == Str(Mention \o <<" ", "h", "i">>, 0)

TextMention == Str(Mention, 0)

TextClear == Str(<<"/", "c", "l", "e", "a", "r">>, 0)

TextHelp == Str(<<"/", "h", "e", "l", "p">>, 0)

\* "\r\u00a0/clear\ufeff\r\n": a command between characters that trim
\* strips
TextClearSpaced ==
    Str(<<"\r", "U+00A0", "/", "c", "l", "e", "a", "r", "U+FEFF", "\r",
          "\n">>, 0)

\* "\u200b/clear": a command after a character that trim keeps
TextZwspClear == Str(<<"U+200B", "/", "c", "l", "e", "a", "r">>, 0)

\* params.event.message.content: whether JSON.parse accepts it, and the text
\* field of the object it gives (Undefined when the object has none)
Content(parses, text) == [parses |-> parses, text |-> text]

EventIds == {"e1", "e2"}

\* (chat_id, user_id) pairs
ChatSenders == {<<"a", "bc">>, <<"a", "c">>}

\* another chat and sender, whose ids concatenate to the same string as
\* those of <<"a", "bc">>
CollidingChatSenders == {<<"ab", "c">>}

Base ==
    [encrypt |-> FALSE, type |-> "event_callback", challenge |-> "",
     header |-> TRUE, debug |-> FALSE,
     event_type |-> "im.message.receive_v1", event_id |-> "e1",
     message_id |-> "om_1", chat_id |-> "a", user_id |-> "c",
     chat_type |-> "p2p", message_type |-> "text",
     content |-> Content(TRUE, TextHi)]

\* payloads that end at one of the guards
GuardPayloads ==
    {[Base EXCEPT !.encrypt = TRUE],
     [Base EXCEPT !.encrypt = TRUE, !.type = "url_verification",
                  !.challenge = "abc123"],
     [Base EXCEPT !.type = "url_verification", !.challenge = "abc123"],
     [Base EXCEPT !.header = FALSE],
     [Base EXCEPT !.debug = TRUE],
     [Base EXCEPT !.event_type = "im.message.message_read_v1"]}

TextContents ==
    {Content(TRUE, TextHi), Content(TRUE, TextMentionHi),
     Content(TRUE, TextMention), Content(TRUE, TextClear),
     Content(TRUE, TextHelp)}

OtherContents == {Content(TRUE, Undefined), Content(FALSE, Undefined)}

\* message-received payloads: text messages of direct and group chats,
\* messages of another type, messages of another chat type
MessagePayloads ==
    {[Base EXCEPT !.event_id = e, !.chat_id = cs[1], !.user_id = cs[2],
                  !.content = c] :
        e \in EventIds, cs \in ChatSenders, c \in TextContents}
    \cup
    {[Base EXCEPT !.event_id = e, !.chat_id = cs[1], !.user_id = cs[2],
                  !.chat_type = "group", !.content = c] :
        e \in EventIds, cs \in ChatSenders,
        c \in {Content(TRUE, TextZwspClear), Content(TRUE, TextClearSpaced)}}
    \cup
    {[Base EXCEPT !.event_id = e, !.chat_id = cs[1], !.user_id = cs[2],
                  !.content = c] :
        e \in EventIds, cs \in CollidingChatSenders,
        c \in {Content(TRUE, TextHi), Content(TRUE, TextClear)}}
    \cup
    {[Base EXCEPT !.event_id = e, !.message_type = "image",
                  !.content = Content(TRUE, Undefined)] : e \in EventIds}
    \cup
    {[Base EXCEPT !.event_id = e, !.chat_type = "group",
                  !.message_type = "image", !.content = c] :
        e \in EventIds, c \in OtherContents \cup {Content(TRUE, TextHi)}}
    \cup
    {[Base EXCEPT !.event_id = e, !.chat_type = "topic"] : e \in EventIds}

Payloads == GuardPayloads \cup MessagePayloads

\* what response.json() gives: it throws, or a JSON object and its text
\* field
QueryResults ==
    {[ok |-> FALSE, text |-> Undefined], [ok |-> TRUE, text |-> Undefined],
     [ok |-> TRUE, text |-> Str(<<>>, 0)],
     [ok |-> TRUE, text |-> Str(<<>>, 600)]}

(***************************************************************************)
(* POST /webhook: the handler                                              *)
(***************************************************************************)
LARK_APP_ID == <<"c", "l", "i", "_", "a">>

LARK_APP_SECRET == <<"s">>

\* res.json({ code, message })
CodeResponse(code, message) ==
    [code |-> code, message |-> message, challenge |-> ""]

\* res.json({ challenge })
ChallengeResponse(challenge) ==
    [code |-> -1, message |-> "", challenge |-> challenge]

\* doctor()
Doctor ==
    IF LARK_APP_ID = <<>>
    THEN CodeResponse(1, "Here is no Lark APP id")
    ELSE IF SubSeq(LARK_APP_ID, 1, 4) # <<"c", "l", "i", "_">>
    THEN CodeResponse(1, "Your Lark App ID is Wrong")
    ELSE IF LARK_APP_SECRET = <<>>
    THEN CodeResponse(1, "Here is no Lark APP Secret")
    ELSE CodeResponse(0, "Configuration is correct")

\* const sessionId = chatId + senderId
SessionId(p) == p.chat_id \o p.user_id

\* new Event({ event_id, content })
EventDoc(event_id, content) == [event_id |-> event_id, content |-> content]

\* a lookup that never finds a record
FindOneEventNever(lg, event_id) == FALSE

\* Event.findOne({ event_id })
FindOneEvent(lg, event_id) == \E i \in DOMAIN lg : lg[i].event_id = event_id

InsertEventNoIndex(lg, edoc) == [duplicate |-> FALSE, ledger |-> Append(lg, edoc)]

\* Event.save() under the unique index on event_id: error code 11000, or the
\* document added
InsertEvent(lg, edoc) ==
    IF FindOneEvent(lg, edoc.event_id)
    THEN [duplicate |-> TRUE, ledger |-> lg]
    ELSE [duplicate |-> FALSE, ledger |-> Append(lg, edoc)]

\* userInput.text.replace("@_user_1", "").trim()
Question(text) == Trim(RemoveFirst(text, Mention))

\* what the handler does with a message once its event id is recorded:
\* the chat-type gate, JSON.parse, and the command test of handleReply
Route(p) ==
    IF p.chat_type = "p2p" /\ p.message_type # "text"
    THEN "unsupported"
    ELSE IF p.chat_type \notin {"p2p", "group"}
    THEN "ignored"
    ELSE IF ~p.content.parses \/ p.content.text = Undefined
    THEN "throws"
    ELSE IF ~StartsWithSlash(Trim(Question(p.content.text)))
    THEN "converse"
    ELSE IF Trim(Question(p.content.text)) = TextClear
    THEN "clear"
    ELSE "help"

\* res.json(body): the handler returns
Respond(d, body) ==
    /\ resp' = [resp EXCEPT ![d] = Append(@, body)]
    /\ pc' = [pc EXCEPT ![d] = "done"]

\* d has completed the effects es
Log(d, es) == log' = [log EXCEPT ![d] = @ \o es]

\* client.im.message.reply, which may fail; reply() swallows the failure
SendReply(d, kind, text, ok) ==
    /\ replies' = [replies EXCEPT ![d] =
                      Append(@, [kind |-> kind, text |-> text, ok |-> ok])]
    /\ Log(d, <<"reply">>)

\* Receive with the url_verification guard ahead of the encrypt guard
ReceiveChallengeFirst(d) ==
    /\ pc[d] = "idle"
    /\ \A e \in Deliveries : e < d => pc[e] # "idle"
    /\ \E p \in Payloads :
        /\ req' = [req EXCEPT ![d] = p]
        /\ IF p.type = "url_verification"
           THEN Respond(d, ChallengeResponse(p.challenge))
           ELSE IF p.encrypt
           THEN Respond(d, CodeResponse(1, "You have open Encrypt Key Feature"))
           ELSE IF ~p.header \/ p.debug
           THEN Respond(d, Doctor)
           ELSE IF p.event_type = "im.message.receive_v1"
           THEN pc' = [pc EXCEPT ![d] = "findOne"] /\ UNCHANGED resp
           ELSE Respond(d, CodeResponse(2, ""))
    /\ UNCHANGED <<dbVars, driverVars, teams, log, ledger, frame, replies, queried,
                   clearing, passed>>

\* the synchronous start of the handler: the guards, then Event.findOne
Receive(d) ==
    /\ pc[d] = "idle"
    /\ \A e \in Deliveries : e < d => pc[e] # "idle"
    /\ \E p \in Payloads :
        /\ req' = [req EXCEPT ![d] = p]
        /\ IF p.encrypt
           THEN Respond(d, CodeResponse(1, "You have open Encrypt Key Feature"))
           ELSE IF p.type = "url_verification"
           THEN Respond(d, ChallengeResponse(p.challenge))
           ELSE IF ~p.header \/ p.debug
           THEN Respond(d, Doctor)
           ELSE IF p.event_type = "im.message.receive_v1"
           THEN pc' = [pc EXCEPT ![d] = "findOne"] /\ UNCHANGED resp
           ELSE Respond(d, CodeResponse(2, ""))
    /\ UNCHANGED <<dbVars, driverVars, teams, log, ledger, frame, replies, queried,
                   clearing, passed>>

\* Event.findOne answers
FindOne(d) ==
    /\ pc[d] = "findOne"
    /\ IF FindOneEvent(ledger, req[d].event_id)
       THEN Respond(d, CodeResponse(1, ""))
       ELSE pc' = [pc EXCEPT ![d] = "saveEvent"] /\ UNCHANGED resp
    /\ UNCHANGED <<dbVars, driverVars, teams, log, ledger, req, frame, replies, queried,
                   clearing, passed>>

\* new Event({ event_id }).save() answers: with an error that is not the
\* duplicate key, which the handler throws on; with the duplicate key; or
\* with success, and the handler runs on to its next awaited call
SaveEvent(d) ==
    /\ pc[d] = "saveEvent"
    /\ LET r == InsertEvent(ledger, EventDoc(req[d].event_id, Undefined))
           route == Route(req[d])
       IN  \/ /\ pc' = [pc EXCEPT ![d] = "rejected"]
              /\ UNCHANGED <<ledger, resp, frame, clearing, passed, log>>
           \/ /\ ledger' = r.ledger
              /\ IF r.duplicate
                 THEN /\ Respond(d, CodeResponse(1, "Duplicate event ID"))
                      /\ UNCHANGED <<frame, clearing, passed, log>>
                 ELSE /\ pc' = [pc EXCEPT ![d] =
                            CASE route = "unsupported" -> "replyUnsupported"
                              [] route = "ignored" -> "done"
                              [] route = "throws" -> "rejected"
                              [] route = "converse" -> "find"
                              [] route = "clear" -> "replyClear"
                              [] route = "help" -> "replyHelp"]
                      /\ resp' = [resp EXCEPT ![d] =
                            IF route = "ignored"
                            THEN Append(@, CodeResponse(2, ""))
                            ELSE @]
                      /\ frame' = [frame EXCEPT ![d].question =
                            IF route \in {"converse", "clear", "help"}
                            THEN Question(req[d].content.text)
                            ELSE @]
                      /\ clearing' = IF route = "clear"
                                     THEN clearing \cup {d}
                                     ELSE clearing
                      /\ passed' = passed \cup {d}
                      /\ Log(d, <<"record">>)
    /\ UNCHANGED <<dbVars, driverVars, teams, req, replies, queried>>

\* the reply "Not support other format question, only text." returns
ReplyUnsupported(d) ==
    /\ pc[d] = "replyUnsupported"
    /\ \E ok \in BOOLEAN : SendReply(d, "unsupported", Undefined, ok)
    /\ Respond(d, CodeResponse(0, ""))
    /\ UNCHANGED <<dbVars, driverVars, teams, ledger, req, frame, queried, clearing,
                   passed>>

\* cmdHelp: the reply with the help text returns
ReplyHelp(d) ==
    /\ pc[d] = "replyHelp"
    /\ \E ok \in BOOLEAN : SendReply(d, "help", Undefined, ok)
    /\ Respond(d, CodeResponse(0, ""))
    /\ UNCHANGED <<dbVars, driverVars, teams, ledger, req, frame, queried, clearing,
                   passed>>

\* cmdClear: the reply "All history removed" returns
ReplyClear(d) ==
    /\ pc[d] = "replyClear"
    /\ \E ok \in BOOLEAN : SendReply(d, "cleared", Undefined, ok)
    /\ Respond(d, CodeResponse(0, ""))
    /\ UNCHANGED <<dbVars, driverVars, teams, ledger, req, frame, queried, clearing,
                   passed>>

\* the Msg.deleteMany that cmdClear started without awaiting it takes effect
ExecClear(d) ==
    /\ d \in clearing
    /\ store' = ClearConversation(store, SessionId(req[d]))
    /\ clearing' = clearing \ {d}
    /\ UNCHANGED <<clock, nextId, driverVars, teams, log, ledger, pc, req, frame, resp,
                   replies, queried, passed>>

\* buildConversation: Msg.find answers, the prompt is built and the fetch of
\* query is sent
FindHistory(d) ==
    /\ pc[d] = "find"
    /\ \E messages \in SortAsc(Find(store, SessionId(req[d]))) :
        frame' = [frame EXCEPT ![d].prompt =
                     BuildConversation(messages, frame[d].question)]
    /\ queried' = [queried EXCEPT ![d] = @ + 1]
    /\ pc' = [pc EXCEPT ![d] = "query"]
    /\ Log(d, <<"build", "query">>)
    /\ UNCHANGED <<dbVars, driverVars, teams, ledger, req, resp, replies, clearing,
                   passed>>

\* handleReply once query has settled with openaiResponse: saveConversation
\* validates, constructs its document and starts the insert
SaveConversation(d, openaiResponse) ==
    LET q == frame[d].question
    IN  IF SaveValid(q, openaiResponse)
        THEN /\ \E t \in Now :
                  /\ frame' = [frame EXCEPT
                         ![d].openaiResponse = openaiResponse,
                         ![d].msg = NewMsg(nextId + 1, t, SessionId(req[d]),
                                           q, openaiResponse,
                                           MsgSize(q, openaiResponse))]
                  /\ clock' = t
             /\ nextId' = nextId + 1
             /\ pc' = [pc EXCEPT ![d] = "saveMsg"]
        ELSE /\ frame' = [frame EXCEPT ![d].openaiResponse = openaiResponse]
             /\ pc' = [pc EXCEPT ![d] = "rejected"]
             /\ UNCHANGED <<clock, nextId>>

\* query: fetch answers; when it rejects, query throws and openaiResponse is
\* undefined, otherwise response.json() is awaited
QueryFetch(d) ==
    /\ pc[d] = "query"
    /\ \/ SaveConversation(d, Undefined)
       \/ /\ pc' = [pc EXCEPT ![d] = "json"]
          /\ UNCHANGED <<frame, clock, nextId>>
    /\ UNCHANGED <<store, driverVars, teams, log, ledger, req, resp, replies,
                   queried, clearing, passed>>

\* query: response.json() answers
QueryJson(d) ==
    /\ pc[d] = "json"
    /\ \E r \in QueryResults :
        SaveConversation(d, IF r.ok THEN r.text ELSE Undefined)
    /\ UNCHANGED <<store, driverVars, teams, log, ledger, req, resp, replies,
                   queried, clearing, passed>>

\* new Msg(...).save() answers; discardConversation starts its find
SaveMsg(d) ==
    /\ pc[d] = "saveMsg"
    /\ store' = store \cup {frame[d].msg}
    /\ pc' = [pc EXCEPT ![d] = "discardFind"]
    /\ Log(d, <<"append">>)
    /\ UNCHANGED <<clock, nextId, driverVars, teams, ledger, req, frame, resp,
                   replies, queried, clearing, passed>>

\* discardConversation: Msg.find answers and the rows to delete are listed
DiscardFind(d) ==
    /\ pc[d] = "discardFind"
    /\ \E messages \in SortDesc(Find(store, SessionId(req[d]))) :
        LET del == ToDelete(messages)
        IN  /\ frame' = [frame EXCEPT ![d].toDelete = del]
            /\ pc' = [pc EXCEPT ![d] =
                         IF del = <<>> THEN "reply" ELSE "discardDelete"]
            /\ Log(d, IF del = <<>> THEN <<"trim">> ELSE <<>>)
    /\ UNCHANGED <<dbVars, driverVars, teams, ledger, req, resp, replies, queried,
                   clearing, passed>>

\* discardConversation: one Msg.deleteOne answers
DiscardDelete(d) ==
    /\ pc[d] = "discardDelete"
    /\ store' = DeleteOne(store, Head(frame[d].toDelete))
    /\ frame' = [frame EXCEPT ![d].toDelete = Tail(@)]
    /\ pc' = [pc EXCEPT ![d] =
                 IF Tail(frame[d].toDelete) = <<>>
                 THEN "reply"
                 ELSE "discardDelete"]
    /\ Log(d, IF Tail(frame[d].toDelete) = <<>> THEN <<"trim">> ELSE <<>>)
    /\ UNCHANGED <<clock, nextId, driverVars, teams, ledger, req, resp, replies,
                   queried, clearing, passed>>

\* ReplyAnswer with the failure of the reply left to propagate
ReplyAnswerAborts(d) ==
    /\ pc[d] = "reply"
    /\ \E ok \in BOOLEAN :
        /\ SendReply(d, "answer", frame[d].openaiResponse, ok)
        /\ pc' = [pc EXCEPT ![d] = IF ok THEN "saveContent" ELSE "rejected"]
    /\ UNCHANGED <<dbVars, driverVars, teams, ledger, req, frame, resp, queried,
                   clearing, passed>>

\* reply(messageId, openaiResponse) returns; the second Event.save starts
ReplyAnswer(d) ==
    /\ pc[d] = "reply"
    /\ \E ok \in BOOLEAN :
        SendReply(d, "answer", frame[d].openaiResponse, ok)
    /\ pc' = [pc EXCEPT ![d] = "saveContent"]
    /\ UNCHANGED <<dbVars, driverVars, teams, ledger, req, frame, resp, queried,
                   clearing, passed>>

\* new Event({ event_id, content }).save() answers: with an error that is
\* not the duplicate key, which handleReply throws on; with the duplicate
\* key; or with success
SaveContent(d) ==
    /\ pc[d] = "saveContent"
    /\ Log(d, <<"content">>)
    /\ LET r == InsertEvent(ledger,
                            EventDoc(req[d].event_id, req[d].content.text))
       IN  \/ /\ pc' = [pc EXCEPT ![d] = "rejected"]
              /\ UNCHANGED <<ledger, resp>>
           \/ /\ ledger' = r.ledger
              /\ IF r.duplicate
                 THEN Respond(d, CodeResponse(1, "Duplicate event ID"))
                 ELSE Respond(d, CodeResponse(0, ""))
    /\ UNCHANGED <<dbVars, driverVars, teams, req, frame, replies, queried, clearing,
                   passed>>

Next ==
    \E d \in Deliveries :
        \/ Receive(d)
        \/ FindOne(d)
        \/ SaveEvent(d)
        \/ ReplyUnsupported(d)
        \/ ReplyHelp(d)
        \/ ReplyClear(d)
        \/ ExecClear(d)
        \/ FindHistory(d)
        \/ QueryFetch(d)
        \/ QueryJson(d)
        \/ SaveMsg(d)
        \/ DiscardFind(d)
        \/ DiscardDelete(d)
        \/ ReplyAnswer(d)
        \/ SaveContent(d)

Spec == Init /\ [][Next]_vars

(***************************************************************************)
(* Properties of POST /webhook under Spec                                  *)
(***************************************************************************)
\* the handler of d has returned or thrown
Ended(d) == pc[d] \in {"done", "rejected"}

\* d carries a message-received event that reaches the dedup step
IsMessage(d) ==
    /\ pc[d] # "idle"
    /\ ~req[d].encrypt
    /\ req[d].type # "url_verification"
    /\ req[d].header /\ ~req[d].debug
    /\ req[d].event_type = "im.message.receive_v1"

\* d and e are different deliveries of the same event id
SameEvent(d, e) ==
    d # e /\ IsMessage(d) /\ IsMessage(e) /\ req[d].event_id = req[e].event_id

\* d has done nothing beyond the dedup step
NoSideEffect(d) ==
    /\ queried[d] = 0
    /\ replies[d] = <<>>
    /\ frame[d].msg = NoMsg
    /\ d \notin clearing

\* the insert of d's event id failed with an error other than the duplicate
\* key
InsertFailed(d) == pc[d] = "rejected" /\ d \notin passed

\* C2: of the deliveries of one event id whose database steps are answered,
\* under every interleaving, at most one gets past the dedup step, and once
\* all have ended exactly one has; the others end with code 1 and query
\* nothing, reply nothing and write no turn.
C2_OneDeliveryProceeds ==
    \A d, e \in Deliveries :
        SameEvent(d, e) =>
            /\ ~(d \in passed /\ e \in passed)
            /\ d \notin passed => NoSideEffect(d)
            /\ ~InsertFailed(d) /\ ~InsertFailed(e) =>
                   /\ Ended(d) /\ Ended(e) => (d \in passed \/ e \in passed)
                   /\ Ended(d) /\ d \notin passed =>
                          /\ pc[d] = "done"
                          /\ Len(resp[d]) = 1
                          /\ resp[d][1].code = 1

\* two deliveries of one event id both found the ledger empty; one was
\* rejected by the insert, the other queried and replied
C2_Witness ==
    \E d, e \in Deliveries :
        /\ SameEvent(d, e)
        /\ Ended(d) /\ Ended(e)
        /\ e \in passed /\ queried[e] = 1 /\ Len(replies[e]) = 1
        /\ resp[d] = <<CodeResponse(1, "Duplicate event ID")>>
        /\ NoSideEffect(d)

\* no two records of the ledger carry the same event id
LedgerUnique ==
    \A i, j \in DOMAIN ledger :
        ledger[i].event_id = ledger[j].event_id => i = j

\* a step leaves the records of the ledger as they are and adds at most one
LedgerGrows ==
    \/ ledger' = ledger
    \/ /\ Len(ledger') = Len(ledger) + 1
       /\ SubSeq(ledger', 1, Len(ledger)) = ledger

\* the insert attempt of d fails with an error other than the duplicate key
InsertFault(d) ==
    /\ pc[d] \in {"saveEvent", "saveContent"}
    /\ pc'[d] = "rejected"
    /\ ledger' = ledger

\* an insert attempt of d that the storage answers adds a record exactly when
\* the id is not yet there
InsertOutcome(d) ==
    pc[d] \in {"saveEvent", "saveContent"} /\ pc'[d] # pc[d]
    /\ ~InsertFault(d) =>
        IF \E i \in DOMAIN ledger : ledger[i].event_id = req[d].event_id
        THEN /\ ledger' = ledger
             /\ resp'[d] = <<CodeResponse(1, "Duplicate event ID")>>
        ELSE /\ Len(ledger') = Len(ledger) + 1
             /\ ledger'[Len(ledger')].event_id = req[d].event_id

\* C3: the ledger never holds two records of one event id; the first insert
\* of an id adds its record, every later insert of that id is rejected as a
\* duplicate and changes nothing; no record is deleted or overwritten.
C3_LedgerUniqueness ==
    /\ []LedgerUnique
    /\ [][LedgerGrows /\ \A d \in Deliveries : InsertOutcome(d)]_vars

\* a second insert of a recorded id was rejected and the record is as it was
C3_Witness ==
    \E d \in Deliveries :
        /\ d \in passed
        /\ Len(replies[d]) = 1 /\ replies[d][1].kind = "answer"
        /\ resp[d] = <<CodeResponse(1, "Duplicate event ID")>>
        /\ ledger = <<EventDoc(req[d].event_id, Undefined)>>

\* no other delivery is at work: none is between its first and last step, and
\* no clearConversation of another delivery is pending
Alone(d) ==
    \A e \in Deliveries \ {d} :
        pc[e] \in {"idle", "done", "rejected"} /\ e \notin clearing

\* C6: when the reply "All history removed" has gone out and the webhook
\* responds with code 0, the Message Store holds no turn of the session.
C6_ClearedBeforeConfirm ==
    [][\A d \in Deliveries :
          pc[d] = "replyClear" /\ pc'[d] = "done" /\ Alone(d) =>
              Find(store', SessionId(req[d])) = {}]_vars

\* C8: a delivery of a direct or group chat whose message_type is not text
\* queries nothing and writes no turn, and ends having sent the "unsupported
\* format" reply.
C8_NonTextUnsupported ==
    \A d \in Deliveries :
        /\ d \in passed
        /\ req[d].chat_type \in {"p2p", "group"}
        /\ req[d].message_type # "text"
        => /\ queried[d] = 0
           /\ frame[d].msg = NoMsg
           /\ Ended(d) =>
                  /\ Len(replies[d]) = 1
                  /\ replies[d][1].kind = "unsupported"

\* C9: every delivery that has ended has written exactly one response.
C9_OneResponse ==
    \A d \in Deliveries : Ended(d) => Len(resp[d]) = 1

(***************************************************************************)
(* POST /teams-webhook                                                     *)
(***************************************************************************)
\* req.body.text and req.body.sessionId: absent, empty or a string
TeamsTexts == {Undefined, Str(<<>>, 0), TextHi, TextClear}

TeamsSessionIds ==
    {Undefined, Str(<<>>, 0), Str(<<"a", "b", "c">>, 0), Str(<<"a", "c">>, 0)}

\* what fetch gives: it throws, or a response with its ok flag, whether
\* response.json() parses, and the text field of the parsed object
FetchResults ==
    {[fetch |-> "throws", ok |-> FALSE, parses |-> FALSE, text |-> Undefined],
     [fetch |-> "answers", ok |-> FALSE, parses |-> TRUE, text |-> TextHi],
     [fetch |-> "answers", ok |-> TRUE, parses |-> FALSE, text |-> Undefined],
     [fetch |-> "answers", ok |-> TRUE, parses |-> TRUE, text |-> Undefined],
     [fetch |-> "answers", ok |-> TRUE, parses |-> TRUE, text |-> Str(<<>>, 0)],
     [fetch |-> "answers", ok |-> TRUE, parses |-> TRUE, text |-> TextHi],
     [fetch |-> "answers", ok |-> TRUE, parses |-> TRUE,
      text |-> Str(<<>>, 600)]}

\* res.status(status).json({ error }) and res.json({ message })
TeamsResponse(status, message) == [status |-> status, message |-> message]

TeamsValidTextOnly(text, sessionId) == Truthy(text)

\* if (!text || !sessionId) is not taken
TeamsValid(text, sessionId) == Truthy(text) /\ Truthy(sessionId)

QueryFlowiseUnchecked(r) ==
    IF r.fetch = "throws" \/ ~r.parses
    THEN [threw |-> TRUE, text |-> Undefined]
    ELSE [threw |-> FALSE, text |-> r.text]

\* queryFlowise: the generated text, or an error thrown
QueryFlowise(r) ==
    IF r.fetch = "throws"
    THEN [threw |-> TRUE, text |-> Undefined]
    ELSE IF ~r.ok
    THEN [threw |-> TRUE, text |-> Undefined]
    ELSE IF ~r.parses
    THEN [threw |-> TRUE, text |-> Undefined]
    ELSE IF Truthy(r.text)
    THEN [threw |-> FALSE, text |-> r.text]
    ELSE [threw |-> TRUE, text |-> Undefined]

\* the handler validates the body, then starts queryFlowise
TeamsReceive(t) ==
    /\ teams[t].pc = "idle"
    /\ \A u \in TeamsRequests : u < t => teams[u].pc # "idle"
    /\ \E text \in TeamsTexts, sessionId \in TeamsSessionIds :
        teams' = [teams EXCEPT ![t] =
            IF TeamsValid(text, sessionId)
            THEN [@ EXCEPT !.pc = "query", !.text = text,
                           !.sessionId = sessionId, !.queried = @ + 1]
            ELSE [@ EXCEPT !.pc = "done", !.text = text,
                           !.sessionId = sessionId,
                           !.resp = Append(@, TeamsResponse(400, Undefined))]]
    /\ UNCHANGED <<dbVars, driverVars, hookVars>>

\* the handler responds to what queryFlowise made of r
TeamsRespond(t, r) ==
    LET a == QueryFlowise(r)
    IN  teams' = [teams EXCEPT ![t] =
            [@ EXCEPT !.pc = "done", !.result = r,
                      !.resp = Append(@, IF a.threw
                                         THEN TeamsResponse(500, Undefined)
                                         ELSE TeamsResponse(200, a.text))]]

\* fetch answers: it throws or the response is not ok, and the handler
\* responds; or response.json() is awaited
TeamsFetch(t) ==
    /\ teams[t].pc = "query"
    /\ \/ \E r \in FetchResults :
            /\ r.fetch = "throws" \/ ~r.ok
            /\ TeamsRespond(t, r)
       \/ teams' = [teams EXCEPT ![t].pc = "json"]
    /\ UNCHANGED <<dbVars, driverVars, hookVars>>

\* response.json() answers or throws; the handler responds
TeamsJson(t) ==
    /\ teams[t].pc = "json"
    /\ \E r \in FetchResults :
        /\ r.fetch = "answers" /\ r.ok
        /\ TeamsRespond(t, r)
    /\ UNCHANGED <<dbVars, driverVars, hookVars>>

NextTeams ==
    \E t \in TeamsRequests : TeamsReceive(t) \/ TeamsFetch(t) \/ TeamsJson(t)

SpecTeams == Init /\ [][NextTeams]_vars

(***************************************************************************)
(* Properties of POST /teams-webhook under SpecTeams                       *)
(***************************************************************************)
\* text or sessionId is missing or empty
TeamsMissing(t) ==
    \/ teams[t].text \in {Undefined, Str(<<>>, 0)}
    \/ teams[t].sessionId \in {Undefined, Str(<<>>, 0)}

\* the downstream call returned success with a non-empty text field
TeamsSuccess(t) ==
    /\ teams[t].result.fetch = "answers"
    /\ teams[t].result.ok
    /\ teams[t].result.parses
    /\ teams[t].result.text.kind = "string"
    /\ Length(teams[t].result.text) > 0

\* C10: a request of /teams-webhook gets exactly one response: 400 exactly
\* when text or sessionId is missing or empty, and then nothing is queried;
\* otherwise the generated text when the downstream call succeeded with a
\* non-empty text, otherwise 500; the collections are never touched.
C10_TeamsResponses ==
    /\ store = {} /\ ledger = <<>>
    /\ \A t \in TeamsRequests :
        /\ teams[t].pc # "done" => teams[t].resp = <<>>
        /\ teams[t].pc = "done" =>
            /\ Len(teams[t].resp) = 1
            /\ teams[t].resp[1].status = 400 <=> TeamsMissing(t)
            /\ TeamsMissing(t) => teams[t].queried = 0
            /\ ~TeamsMissing(t) =>
                /\ teams[t].queried = 1
                /\ IF TeamsSuccess(t)
                   THEN teams[t].resp[1] =
                            TeamsResponse(200, teams[t].result.text)
                   ELSE teams[t].resp[1] = TeamsResponse(500, Undefined)

\* one request was refused with 400, another got 500 for an empty text field
C10_Witness ==
    \E t, u \in TeamsRequests :
        /\ teams[t].pc = "done" /\ teams[t].resp[1].status = 400
        /\ teams[t].text = TextHi /\ teams[t].queried = 0
        /\ teams[u].pc = "done" /\ teams[u].resp[1].status = 500
        /\ teams[u].result.ok /\ teams[u].result.text = Str(<<>>, 0)


(***************************************************************************)
(* The guards of POST /webhook                                             *)
(***************************************************************************)
\* the body the guards give to payload p, in the order the handler tests
\* them
GuardVerdict(p) ==
    IF p.encrypt
    THEN CodeResponse(1, "You have open Encrypt Key Feature")
    ELSE IF p.type = "url_verification"
    THEN [code |-> -1, message |-> "", challenge |-> p.challenge]
    ELSE IF ~p.header \/ p.debug
    THEN Doctor
    ELSE CodeResponse(2, "")

\* p ends at one of the guards
HitsGuard(p) ==
    \/ p.encrypt
    \/ p.type = "url_verification"
    \/ ~p.header \/ p.debug
    \/ p.event_type # "im.message.receive_v1"

\* d has been received and its payload ends at a guard
AtGuard(d) == pc[d] # "idle" /\ HitsGuard(req[d])

\* a guard delivery has ended with the one body of its guard and has caused
\* no query, reply, turn, clear or ledger write
GuardTerminal ==
    \A d \in Deliveries :
        AtGuard(d) =>
            /\ pc[d] = "done"
            /\ resp[d] = <<GuardVerdict(req[d])>>
            /\ NoSideEffect(d)
            /\ d \notin passed

\* the step that receives a guard delivery leaves the ledger and the
\* Message Store as they were
GuardFrame ==
    \A d \in Deliveries :
        (pc[d] = "idle" /\ AtGuard(d)') =>
            /\ ledger' = ledger
            /\ store' = store
            /\ queried' = queried
            /\ replies' = replies

\* C11: the guards are tested in the order encrypt, url_verification,
\* missing header or debug, unrecognized event type; the first that applies
\* ends the delivery with its body (configuration error with code 1, the
\* challenge echoed unchanged, the doctor verdict, code 2) and the ledger and
\* the Message Store are unchanged, no downstream query and no reply is made
C11_GuardsTerminal == []GuardTerminal /\ [][GuardFrame]_vars

\* a delivery that carries both encrypt and url_verification got the
\* configuration error, one with an unrecognized event type got code 2, while
\* the other delivery has written the ledger and a turn
C11_Witness ==
    \E d \in Deliveries :
        /\ pc[d] = "done"
        /\ req[d].encrypt /\ req[d].type = "url_verification"
        /\ resp[d] = <<CodeResponse(1, "You have open Encrypt Key Feature")>>
        /\ ledger # <<>> /\ store # {}


(***************************************************************************)
(* The oversized turn, under SpecStore                                     *)
(***************************************************************************)
\* C12: when the turn just appended is larger than 1024, the trim of that
\* append deletes it and every older turn of the session: the session holds
\* no turn once the append has returned, nothing else having been in flight.
C12_OversizedEmpties ==
    Sequential /\ op.msgSize > Budget => TurnsOf(op.sessionId) = {}


(***************************************************************************)
(* Validation of saveConversation in the conversational path               *)
(***************************************************************************)
\* a value that is missing or the empty string
Missing(t) == t = Undefined \/ Length(t) = 0

\* the downstream query of d has answered
Answered(d) == queried[d] > 0 /\ pc[d] \notin {"query", "json"}

\* the step in which saveConversation is called: it throws exactly when the
\* question or the answer is missing or empty, and then nothing is stored or
\* constructed
ValidationStep ==
    \A d \in Deliveries :
        (pc[d] \in {"query", "json"} /\ pc'[d] \notin {"query", "json"}) =>
            LET bad == Missing(frame[d].question)
                       \/ Missing(frame'[d].openaiResponse)
            IN  /\ bad <=> pc'[d] = "rejected"
                /\ ~bad <=> pc'[d] = "saveMsg"
                /\ bad => /\ store' = store
                          /\ nextId' = nextId
                          /\ frame'[d].msg = NoMsg
                          /\ frame'[d].toDelete = <<>>

\* a delivery whose query gave no text, or whose question is empty, has
\* stored no turn, listed no row for deletion and sent no reply
FailedQueryInert ==
    \A d \in Deliveries :
        (Answered(d) /\ (Missing(frame[d].openaiResponse)
                         \/ Missing(frame[d].question))) =>
            /\ pc[d] = "rejected"
            /\ frame[d].msg = NoMsg
            /\ frame[d].toDelete = <<>>
            /\ replies[d] = <<>>
            /\ \A m \in store :
                    \E e \in Deliveries \ {d} : frame[e].msg = m

\* C13: saveConversation fails when the question or the answer is empty or
\* missing, and then inserts no turn and runs no trim, the Message Store
\* staying as it was; so a delivery of the conversational path whose
\* downstream query gave no text never adds a turn and never sends a reply
\* with generated text.
C13_ValidationAtomic == []FailedQueryInert /\ [][ValidationStep]_vars

\* a delivery with a question whose query gave no text has been rejected
\* while its session holds the turn of the other delivery
C13_Witness ==
    \E d \in Deliveries :
        /\ pc[d] = "rejected"
        /\ Truthy(frame[d].question)
        /\ frame[d].openaiResponse = Undefined
        /\ \E m \in store : m.sessionId = SessionId(req[d])


(***************************************************************************)
(* The order of effects in the conversational path                         *)
(***************************************************************************)
IsPrefix(s, t) == Len(s) <= Len(t) /\ s = SubSeq(t, 1, Len(s))

\* the effects of handleReply for a question, in their order
ConverseEffects ==
    <<"record", "build", "query", "append", "trim", "reply", "content">>

\* d has recorded its event id and its message goes to the downstream query
Converses(d) == d \in passed /\ Route(req[d]) = "converse"

\* the effects of a conversational delivery so far are an initial part of
\* ConverseEffects
EffectOrder ==
    \A d \in Deliveries : Converses(d) => IsPrefix(log[d], ConverseEffects)

\* once the reply has been attempted, sent or failed, the handler goes on to
\* the write of the content and ends with a response
ReplySwallowed ==
    \A d \in Deliveries :
        (Converses(d) /\ replies[d] # <<>>) =>
            /\ pc[d] \in {"saveContent", "done", "rejected"}
            /\ pc[d] \in {"done", "rejected"} => log[d] = ConverseEffects

\* the step after the reply is the attempt to write the content
ContentAfterReply ==
    \A d \in Deliveries :
        (pc[d] = "reply" /\ pc'[d] # "reply") =>
            /\ pc'[d] = "saveContent"
            /\ Len(replies'[d]) = 1

\* C14: a delivery of the conversational path records its event id, builds
\* the prompt, queries downstream, persists the turn (append, then trim),
\* sends the reply and attempts the write of the content to the ledger, in
\* this order; a reply that fails is swallowed, never ends the handler, and
\* the write of the content is attempted after it all the same.
C14_EffectOrder ==
    /\ []EffectOrder
    /\ []ReplySwallowed
    /\ [][ContentAfterReply]_vars

\* a delivery has gone through all effects although its reply failed
C14_Witness ==
    \E d \in Deliveries :
        /\ pc[d] = "done"
        /\ log[d] = ConverseEffects
        /\ replies[d] = <<[kind |-> "answer", text |-> frame[d].openaiResponse,
                           ok |-> FALSE]>>


(***************************************************************************)
(* The content of the ledger record                                        *)
(***************************************************************************)
\* the ledger records of an event id
RecordsOf(event_id) ==
    {i \in DOMAIN ledger : ledger[i].event_id = event_id}

\* C15: once the conversational path has completed for a new event, the one
\* ledger record of that event id carries the raw text of the message.
C15_ContentRecorded ==
    \A d \in Deliveries :
        (pc[d] = "done" /\ Converses(d) /\ log[d] = ConverseEffects) =>
            /\ Cardinality(RecordsOf(req[d].event_id)) = 1
            /\ \A i \in RecordsOf(req[d].event_id) :
                    ledger[i].content = req[d].content.text


(***************************************************************************)
(* Redelivery                                                              *)
(***************************************************************************)
\* the lookup of a delivery whose event id is in the ledger ends the
\* delivery with code 1 and changes neither collection, queries nothing and
\* replies nothing
RedeliveryStep ==
    \A d \in Deliveries :
        (pc[d] = "findOne" /\ pc'[d] # "findOne"
         /\ RecordsOf(req[d].event_id) # {}) =>
            /\ pc'[d] = "done"
            /\ Len(resp'[d]) = 1 /\ resp'[d][1].code = 1
            /\ ledger' = ledger
            /\ store' = store
            /\ queried' = queried
            /\ replies' = replies
            /\ clearing' = clearing

\* a delivery that the lookup has ended stays without effect
RedeliveryInert ==
    \A d \in Deliveries :
        (IsMessage(d) /\ pc[d] = "done" /\ d \notin passed) =>
            /\ NoSideEffect(d)
            /\ log[d] = <<>>
            /\ Len(resp[d]) = 1 /\ resp[d][1].code = 1

\* a delivery that has queried, replied, constructed a turn or started a
\* clear has the id of its event in the ledger, recorded by itself
RecordedFirst ==
    \A d \in Deliveries :
        (pc[d] # "idle" /\ (~NoSideEffect(d) \/ log[d] # <<>>)) =>
            /\ RecordsOf(req[d].event_id) # {}
            /\ d \in passed
            /\ Head(log[d]) = "record"

\* C16: a delivery whose event id is in the ledger when it is looked up ends
\* with code 1, leaves the ledger and the Message Store as they were, queries
\* nothing and replies nothing, whatever became of the first delivery; and
\* no delivery queries, replies or writes a turn before the id of its event
\* has been recorded in the ledger.
C16_RedeliveryNoOp ==
    /\ []RedeliveryInert
    /\ []RecordedFirst
    /\ [][RedeliveryStep]_vars

\* the first delivery of an event was rejected after its query failed; the
\* redelivery found the id in the ledger and ended with code 1
C16_Witness ==
    \E d, e \in Deliveries :
        /\ SameEvent(d, e)
        /\ pc[e] = "rejected" /\ queried[e] = 1
        /\ pc[d] = "done" /\ resp[d] = <<CodeResponse(1, "")>>
        /\ Len(ledger) = 1


(***************************************************************************)
(* The duplicate acknowledgment                                            *)
(***************************************************************************)
\* C17: a delivery answers code 1 with "Duplicate event ID" only when the id
\* of its event was recorded in the ledger by another delivery; the first
\* delivery of a new event id that completes the conversational path is
\* answered with code 0.
C17_DuplicateOnlyForDuplicates ==
    \A d \in Deliveries :
        /\ (\E i \in DOMAIN resp[d] :
                resp[d][i] = CodeResponse(1, "Duplicate event ID"))
            => d \notin passed
        /\ (pc[d] = "done" /\ Converses(d) /\ log[d] = ConverseEffects)
            => resp[d] = <<CodeResponse(0, "")>>


(***************************************************************************)
(* Isolation of sessions                                                   *)
(***************************************************************************)
\* d and e come from the same chat id and the same sender id
SamePair(d, e) ==
    req[d].chat_id = req[e].chat_id /\ req[d].user_id = req[e].user_id

\* turn m was written by a delivery of the chat and sender of d
OwnTurn(d, m) ==
    \E e \in Deliveries :
        pc[e] # "idle" /\ frame[e].msg.id = m.id /\ SamePair(d, e)

\* the history that goes into the prompt of d holds turns of its pair only
HistoryOwn ==
    \A d \in Deliveries :
        (pc[d] = "find" /\ pc'[d] = "query") =>
            \A m \in Find(store, SessionId(req[d])) : OwnTurn(d, m)

\* the turns that a trim or a clear of d deletes are turns of its pair, and
\* no step changes a stored turn
DeletesOwn ==
    \A d \in Deliveries :
        ((d \in clearing /\ d \notin clearing')
         \/ (pc[d] = "discardDelete"
             /\ frame'[d].toDelete # frame[d].toDelete)) =>
            /\ \A m \in store \ store' : OwnTurn(d, m)
            /\ store' \subseteq store

\* C18: the history used for the prompt of a delivery holds only turns
\* written by deliveries of the same chat id and sender id, and the appends,
\* trims and clears of one pair never delete or change a turn of another
\* pair, for all pairs of chat ids and sender ids.
C18_SessionIsolation == [][HistoryOwn /\ DeletesOwn]_vars


(***************************************************************************)
(* SpecAppend: calls of saveConversation that run side by side             *)
(***************************************************************************)
AppendQuestions == {Str(<<"h", "i">>, 0), Str(<<>>, 0)}

AppendAnswers == {Undefined, Str(<<>>, 422), Str(<<>>, 598), Str(<<>>, 1098)}

\* the ids of a list of rows
IdList(messages) == [i \in DOMAIN messages |-> messages[i].id]

\* saveConversation is called: it throws, or constructs the document and
\* starts the insert
AppendStart(p) ==
    /\ savers[p].pc = "idle"
    /\ \A o \in Savers : o < p => savers[o].pc # "idle"
    /\ \E sessionId \in StoreSessions, question \in AppendQuestions,
          answer \in AppendAnswers :
        IF SaveValid(question, answer)
        THEN /\ \E t \in Now :
                  /\ savers' = [savers EXCEPT
                         ![p].pc = "insert",
                         ![p].msg = NewMsg(nextId + 1, t, sessionId,
                                           question, answer,
                                           MsgSize(question, answer))]
                  /\ clock' = t
             /\ nextId' = nextId + 1
        ELSE /\ savers' = [savers EXCEPT ![p].pc = "threw"]
             /\ UNCHANGED <<clock, nextId>>
    /\ UNCHANGED <<store, op, hist, hookVars, teams>>

\* new Msg(...).save() answers; discardConversation starts its find
AppendInsert(p) ==
    /\ savers[p].pc = "insert"
    /\ store' = store \cup {savers[p].msg}
    /\ savers' = [savers EXCEPT ![p].pc = "find"]
    /\ UNCHANGED <<clock, nextId, op, hist, hookVars, teams>>

\* AppendFind with a find that leaves out the rows newer than the own one
AppendFindOlderOnly(p) ==
    /\ savers[p].pc = "find"
    /\ LET older == {m \in store : m.id <= savers[p].msg.id}
       IN  \E messages \in SortDesc(Find(older, savers[p].msg.sessionId)) :
               LET del == ToDelete(messages)
               IN  savers' = [savers EXCEPT
                       ![p].messages = IdList(messages),
                       ![p].toDelete = del,
                       ![p].pc = IF del = <<>> THEN "done" ELSE "delete"]
    /\ UNCHANGED <<dbVars, op, hist, hookVars, teams>>

\* discardConversation: Msg.find answers and the rows to delete are listed
AppendFind(p) ==
    /\ savers[p].pc = "find"
    /\ \E messages \in SortDesc(Find(store, savers[p].msg.sessionId)) :
        LET del == ToDelete(messages)
        IN  savers' = [savers EXCEPT
                ![p].messages = IdList(messages),
                ![p].toDelete = del,
                ![p].pc = IF del = <<>> THEN "done" ELSE "delete"]
    /\ UNCHANGED <<dbVars, op, hist, hookVars, teams>>

\* discardConversation: one Msg.deleteOne answers
AppendDelete(p) ==
    /\ savers[p].pc = "delete"
    /\ store' = DeleteOne(store, Head(savers[p].toDelete))
    /\ savers' = [savers EXCEPT
            ![p].toDelete = Tail(@),
            ![p].pc = IF Tail(savers[p].toDelete) = <<>>
                      THEN "done"
                      ELSE "delete"]
    /\ UNCHANGED <<clock, nextId, op, hist, hookVars, teams>>

NextAppend ==
    \E p \in Savers :
        \/ AppendStart(p)
        \/ AppendInsert(p)
        \/ AppendFind(p)
        \/ AppendDelete(p)

SpecAppend == Init /\ [][NextAppend]_vars

\* every call that was made has returned or thrown
AllReturned == \A p \in Savers : savers[p].pc \in {"idle", "done", "threw"}

\* C19: when several calls of saveConversation for a session run side by
\* side, their inserts, finds and deletes interleaved in any way, then once
\* all of them have completed the sizes of the turns that remain for the
\* session add up to at most 1024.
C19_ConcurrentConverges ==
    AllReturned =>
        \A sessionId \in StoreSessions :
            SumSizes(TurnsOf(sessionId)) <= Budget

\* three calls for one session have completed; the find of one of them gave
\* all three rows, the newest of them not its own; a turn remains
C19_Witness ==
    /\ \A p \in Savers : savers[p].pc = "done"
    /\ \A p \in Savers : savers[p].msg.sessionId = savers[1].msg.sessionId
    /\ \E p \in Savers :
            /\ Len(savers[p].messages) = 3
            /\ Head(savers[p].messages) # savers[p].msg.id
    /\ TurnsOf(savers[1].msg.sessionId) # {}

====
